---- MODULE Spec2Model ----
(***************************************************************************)
(* Model of gym_super_mario_bros: the stage pool validator and flattener,  *)
(* the target decoder, and the random stage multiplexer                    *)
(* SuperMarioBrosRandomStagesEnv (smb_random_stages_env.py, enums.py,      *)
(* _roms/decode_target.py).                                                *)
(*                                                                         *)
(* One multiplexer object is modelled.  Its fields are the variables       *)
(* random_mode, np_random, envs, stage_pool_keys, env and viewer.  The     *)
(* variables call, result and fwd are the observable outcome of the last   *)
(* call: its name and arguments, what it returned or raised, and the calls *)
(* it forwarded to pooled single-stage instances, in order.                *)
(*                                                                         *)
(* Spec is the life of one multiplexer.  PairSpec is the life of two       *)
(* multiplexers that receive the same calls: the variable other holds the  *)
(* second object while the first one is called, the two are exchanged, and *)
(* the second one receives the same call; turn is the position in this     *)
(* round.  Under Spec other and turn never change.                         *)
(*                                                                         *)
(* FunSpec applies one of the pure functions decode_target,                *)
(* validate_stages and flatten_stages to one argument list drawn in its    *)
(* initial state: call holds the function and its arguments, result what   *)
(* it returned or raised.                                                  *)
(***************************************************************************)
EXTENDS Integers, Sequences, FiniteSets, TLC

VARIABLES constructed, random_mode, np_random, envs,
          stage_pool_keys, env, viewer, call, result, fwd, other, turn

vars == <<constructed, random_mode, np_random, envs,
          stage_pool_keys, env, viewer, call, result, fwd, other, turn>>

----------------------------------------------------------------------------
(* Bounds of the model.                                                    *)

\* the generator position is tracked up to this many draws after a seed
MaxDraws == 2
\* the largest seed value passed to seed() / reset(seed=...)
MaxSeed == 0

----------------------------------------------------------------------------
(* Python values.  Every value is a record of one shape: its type name,    *)
(* its scalar value (0 for containers) and its items (<<>> for scalars).   *)
(* A set is given by its iteration order and holds no duplicates.          *)

PyNone == [ty |-> "NoneType", val |-> 0, items |-> <<>>]
PyInt(n) == [ty |-> "int", val |-> n, items |-> <<>>]
PyFloat(n) == [ty |-> "float", val |-> n, items |-> <<>>]
\* True and False: bool is a subclass of int, True == 1 and False == 0
PyBool(b) == [ty |-> "bool", val |-> IF b THEN 1 ELSE 0, items |-> <<>>]
PyTuple(s) == [ty |-> "tuple", val |-> 0, items |-> s]
PyList(s) == [ty |-> "list", val |-> 0, items |-> s]
PySet(s) == [ty |-> "set", val |-> 0, items |-> s]

\* the (world, stage) tuple
WS(w, s) == PyTuple(<<PyInt(w), PyInt(s)>>)
\* the same pair written as a list, which validate_stages also accepts
WSList(w, s) == PyList(<<PyInt(w), PyInt(s)>>)

NoErr == [exc |-> "ok", cls |-> "ok", i |-> -1, j |-> -1]
Err(e, c, i, j) == [exc |-> e, cls |-> c, i |-> i, j |-> j]

Min(S) == CHOOSE x \in S : \A y \in S : x <= y

\* isinstance(x, int)
isinstance_int(x) == x.ty \in {"int", "bool"}

----------------------------------------------------------------------------
(* enums.py                                                                *)

SMB_ONLY == "SmbOnly"
LOST_LEVELS_ONLY == "LostLevelsOnly"
BOTH == "Both"
RandomModes == {SMB_ONLY, LOST_LEVELS_ONLY, BOTH}

rom_modes_values == {"vanilla", "downsample", "pixel", "rectangle"}

\* lost_levels_values listing every ROM mode
lost_levels_values_all == {"vanilla", "downsample", "pixel", "rectangle"}

lost_levels_values == {"vanilla", "downsample"}

has_smb(m) == m \in {SMB_ONLY, BOTH}
has_lost_levels(m) == m \in {LOST_LEVELS_ONLY, BOTH}

----------------------------------------------------------------------------
(* decode_target: the first failing check, and the returned triple.        *)

\* decode_target_error without the branch for lost levels worlds >= 5
decode_target_error_nogap(target, lost_levels) ==
    IF lost_levels.ty # "bool"
    THEN Err("TypeError", "lost_levels_type", -1, -1)
    ELSE IF target = PyNone THEN NoErr
    ELSE IF target.ty \notin {"tuple", "list"}
    THEN Err("TypeError", "target_type", -1, -1)
    ELSE IF Len(target.items) # 2
    THEN Err("ValueError", "target_len", -1, -1)
    ELSE LET target_world == target.items[1]
             target_stage == target.items[2]
         IN  IF ~isinstance_int(target_world)
             THEN Err("TypeError", "world_type", -1, -1)
             ELSE IF lost_levels.val = 1 /\ ~(1 <= target_world.val
                                              /\ target_world.val <= 12)
             THEN Err("ValueError", "world_range", -1, -1)
             ELSE IF lost_levels.val = 0 /\ ~(1 <= target_world.val
                                              /\ target_world.val <= 8)
             THEN Err("ValueError", "world_range", -1, -1)
             ELSE IF ~isinstance_int(target_stage)
             THEN Err("TypeError", "stage_type", -1, -1)
             ELSE IF ~(1 <= target_stage.val /\ target_stage.val <= 4)
             THEN Err("ValueError", "stage_range", -1, -1)
             ELSE NoErr

decode_target_error(target, lost_levels) ==
    IF lost_levels.ty # "bool"
    THEN Err("TypeError", "lost_levels_type", -1, -1)
    ELSE IF target = PyNone THEN NoErr
    ELSE IF target.ty \notin {"tuple", "list"}
    THEN Err("TypeError", "target_type", -1, -1)
    ELSE IF Len(target.items) # 2
    THEN Err("ValueError", "target_len", -1, -1)
    ELSE LET target_world == target.items[1]
             target_stage == target.items[2]
         IN  IF ~isinstance_int(target_world)
             THEN Err("TypeError", "world_type", -1, -1)
             ELSE IF lost_levels.val = 1 /\ ~(1 <= target_world.val
                                              /\ target_world.val <= 12)
             THEN Err("ValueError", "world_range", -1, -1)
             ELSE IF lost_levels.val = 0 /\ ~(1 <= target_world.val
                                              /\ target_world.val <= 8)
             THEN Err("ValueError", "world_range", -1, -1)
             ELSE IF ~isinstance_int(target_stage)
             THEN Err("TypeError", "stage_type", -1, -1)
             ELSE IF ~(1 <= target_stage.val /\ target_stage.val <= 4)
             THEN Err("ValueError", "stage_range", -1, -1)
             ELSE IF lost_levels.val = 1 /\ target_world.val \notin {1, 3}
                     /\ target_world.val >= 5
             THEN Err("ValueError", "unsupported_world", -1, -1)
             ELSE NoErr

\* target_area bumping the area from stage 3 on instead of stage 2
target_area_late(target_world, target_stage, lost_levels) ==
    IF lost_levels
    THEN IF target_world \in {1, 3} /\ target_stage > 2
         THEN target_stage + 1 ELSE target_stage
    ELSE IF target_world \in {1, 2, 4, 7} /\ target_stage > 2
         THEN target_stage + 1 ELSE target_stage

\* target_area of a (world, stage) that passed the checks
target_area(target_world, target_stage, lost_levels) ==
    IF lost_levels
    THEN IF target_world \in {1, 3} /\ target_stage >= 2
         THEN target_stage + 1 ELSE target_stage
    ELSE IF target_world \in {1, 2, 4, 7} /\ target_stage >= 2
         THEN target_stage + 1 ELSE target_stage

\* None, None, None
no_target == <<<<>>, <<>>, <<>>>>

\* the value decode_target returns when no check fails
decode_target(target, lost_levels) ==
    IF target = PyNone THEN no_target
    ELSE <<target.items[1].val, target.items[2].val,
           target_area(target.items[1].val, target.items[2].val,
                       lost_levels.val = 1)>>

----------------------------------------------------------------------------
(* validate_stages: the first failing check, or NoErr.                     *)

\* pair_error without the test that both members are integers
pair_error_noint(pair) ==
    IF pair.ty \notin {"tuple", "list"} THEN "pair_type"
    ELSE IF Len(pair.items) # 2 THEN "pair_len"
    ELSE "ok"

pair_error(pair) ==
    IF pair.ty \notin {"tuple", "list"} THEN "pair_type"
    ELSE IF Len(pair.items) # 2 THEN "pair_len"
    ELSE IF \E k \in 1..Len(pair.items) : ~isinstance_int(pair.items[k])
         THEN "pair_int"
    ELSE "ok"

pair_exc(c) == IF c = "pair_len" THEN "ValueError" ELSE "TypeError"

\* the checks of one stage group, i is its 0-based index
group_error(stage_group, i) ==
    IF stage_group.ty \notin {"set", "list", "tuple"}
    THEN Err("TypeError", "group_type", i, -1)
    ELSE LET bad == {j \in 1..Len(stage_group.items) :
                        pair_error(stage_group.items[j]) # "ok"}
         IN  IF bad = {} THEN NoErr
             ELSE LET j == Min(bad)
                      c == pair_error(stage_group.items[j])
                  IN  Err(pair_exc(c), c, i, j - 1)

\* validate_stages testing the type of both groups before any entry
validate_stages_types_first(stages) ==
    IF stages.ty \notin {"list", "tuple"}
    THEN Err("TypeError", "stages_type", -1, -1)
    ELSE IF Len(stages.items) # 2
    THEN Err("ValueError", "stages_len", -1, -1)
    ELSE LET untyped == {i \in 1..2 : stages.items[i].ty
                                         \notin {"set", "list", "tuple"}}
             bad == {i \in 1..2 : group_error(stages.items[i], i - 1) # NoErr}
         IN  IF untyped # {}
             THEN group_error(stages.items[Min(untyped)], Min(untyped) - 1)
             ELSE IF bad = {} THEN NoErr
             ELSE group_error(stages.items[Min(bad)], Min(bad) - 1)

validate_stages(stages) ==
    IF stages.ty \notin {"list", "tuple"}
    THEN Err("TypeError", "stages_type", -1, -1)
    ELSE IF Len(stages.items) # 2
    THEN Err("ValueError", "stages_len", -1, -1)
    ELSE LET bad == {i \in 1..2 : group_error(stages.items[i], i - 1) # NoErr}
         IN  IF bad = {} THEN NoErr
             ELSE group_error(stages.items[Min(bad)], Min(bad) - 1)

----------------------------------------------------------------------------
(* flatten_stages.  The key (lost_levels, stage) is written               *)
(* <<lost_levels, type of stage, stage[0], stage[1]>>: a validated stage   *)
(* is a tuple or a list of exactly two integers.                           *)

StageKey(lost_levels, stage) ==
    <<lost_levels, stage.ty, stage.items[1].val, stage.items[2].val>>

Tagged(lost_levels, group) ==
    [k \in 1..Len(group.items) |-> StageKey(lost_levels, group.items[k])]

\* flatten_stages that ignores the selection mode
flatten_stages_any_mode(stages, mode) ==
    Tagged(FALSE, stages.items[1]) \o Tagged(TRUE, stages.items[2])

\* flatten_stages extending with the lost levels stages first
flatten_stages_alt_first(stages, mode) ==
    (IF has_lost_levels(mode) THEN Tagged(TRUE, stages.items[2]) ELSE <<>>)
    \o (IF has_smb(mode) THEN Tagged(FALSE, stages.items[1]) ELSE <<>>)

flatten_stages(stages, mode) ==
    (IF has_smb(mode) THEN Tagged(FALSE, stages.items[1]) ELSE <<>>)
    \o (IF has_lost_levels(mode) THEN Tagged(TRUE, stages.items[2]) ELSE <<>>)

----------------------------------------------------------------------------
(* The owned random generator.  np.random.default_rng() without a seed is  *)
(* seeded from operating-system entropy: each of its draws is an unknown   *)
(* index.  default_rng(seed) is a deterministic stream: the draw is a      *)
(* function of the seed and of the number of draws made since seeding.     *)

NoSeed == -1
Seeds == 0..MaxSeed
SeedArgs == {NoSeed} \cup Seeds

fresh_rng == [seeded |-> FALSE, seed |-> 0, pos |-> 0]
default_rng(seed) == [seeded |-> TRUE, seed |-> seed, pos |-> 0]

\* the raw output of a seeded stream at a position
Stream(seed, pos) == 17 * seed + 29 * pos + 5

\* integers that draws from shared, unseeded randomness
integers_shared(rng, n) == 0..(n - 1)

\* integers that never returns the last index
integers_short(rng, n) ==
    IF rng.seeded THEN {Stream(rng.seed, rng.pos) % n} ELSE 0..(n - 2)

\* the indexes rng.integers(n) can return, 0-based
integers(rng, n) ==
    IF rng.seeded THEN {Stream(rng.seed, rng.pos) % n} ELSE 0..(n - 1)

\* advance that leaves the generator where it was
advance_stuck(rng) == rng

\* the generator after one draw
advance(rng) == IF rng.seeded THEN [rng EXCEPT !.pos = @ + 1] ELSE rng

----------------------------------------------------------------------------
(* The pool.  envs is the dictionary of instances in insertion order; an   *)
(* instance is identified by its key.  None is the empty tuple.            *)

None == <<>>

world_range_smb == 8
world_range_lost_levels == 4
stage_range == 4

all_keys(lost_levels, worlds) ==
    [k \in 1..(worlds * stage_range) |->
        StageKey(lost_levels, WS(((k - 1) \div stage_range) + 1,
                                 ((k - 1) % stage_range) + 1))]

all_smb_keys == all_keys(FALSE, world_range_smb)

\* all_lost_levels_keys reaching into the unsupported worlds
all_lost_levels_keys_wide == all_keys(TRUE, world_range_lost_levels + 1)

all_lost_levels_keys == all_keys(TRUE, world_range_lost_levels)

Range(f) == {f[k] : k \in DOMAIN f}

\* self.envs[key]: hashing a key whose stage is a list raises TypeError
getitem_error(pool, key) ==
    IF key[2] = "list" THEN "TypeError"
    ELSE IF key \in Range(pool) THEN "ok"
    ELSE "KeyError"

Ok(ret, by) == [exc |-> "ok", ret |-> ret, by |-> by, err |-> NoErr]
Raise(e) == [exc |-> e, ret |-> <<>>, by |-> None, err |-> NoErr]
RaiseV(e) == [exc |-> e.exc, ret |-> <<>>, by |-> None, err |-> e]

----------------------------------------------------------------------------
(* Inputs.                                                                 *)

Spec2(a, b) == PyTuple(<<a, b>>)

CtorStages ==
    { Spec2(PySet(<<>>), PySet(<<>>)),
      Spec2(PyList(<<WS(1, 2), WS(1, 1), WS(1, 2)>>), PyList(<<>>)),
      Spec2(PyList(<<>>), PyList(<<WS(2, 1), WS(1, 3)>>)),
      Spec2(PyList(<<WS(1, 1), WS(9, 1)>>), PyList(<<WS(1, 1), WS(5, 1)>>)),
      Spec2(PyList(<<WS(9, 1)>>), PyList(<<WS(3, 4)>>)),
      Spec2(PyList(<<WS(1, 1), WSList(1, 2)>>), PySet(<<>>)),
      PyTuple(<<PySet(<<>>), PySet(<<>>), PySet(<<>>)>>),
      PyInt(5),
      Spec2(PyInt(5), PyList(<<>>)),
      Spec2(PyList(<<PyTuple(<<PyFloat(1), PyFloat(1)>>)>>), PyInt(5)),
      Spec2(PyList(<<WS(1, 1), PyTuple(<<PyInt(1)>>)>>), PyList(<<>>)),
      Spec2(PyList(<<>>), PyList(<<PyInt(7)>>)) }

OverrideStages ==
    { Spec2(PyList(<<WS(3, 2)>>), PyList(<<WS(2, 2)>>)),
      Spec2(PyList(<<>>), PyList(<<WS(1, 1)>>)),
      Spec2(PySet(<<>>), PySet(<<>>)),
      Spec2(PyList(<<WS(9, 1)>>), PyList(<<WS(5, 1)>>)),
      Spec2(PyList(<<WSList(1, 1)>>), PyList(<<>>)),
      Spec2(PyList(<<PyTuple(<<PyFloat(1), PyFloat(1)>>)>>), PyList(<<>>)) }

\* the options argument of reset: None, a dict, or a non-dict object
Options ==
    { [kind |-> "NoneType", has_stages |-> FALSE, stages |-> PyNone],
      [kind |-> "dict", has_stages |-> FALSE, stages |-> PyNone],
      [kind |-> "list", has_stages |-> TRUE, stages |-> PyNone],
      [kind |-> "int", has_stages |-> FALSE, stages |-> PyNone] }
    \cup { [kind |-> "dict", has_stages |-> TRUE, stages |-> s] :
             s \in OverrideStages }

MaxAction == 0
Actions == 0..MaxAction

----------------------------------------------------------------------------
(* Initial state: the object is allocated, __init__ has not run.           *)

\* the multiplexer the calls currently go to, as one value
obj ==
    [constructed |-> constructed, random_mode |-> random_mode,
     np_random |-> np_random, envs |-> envs,
     stage_pool_keys |-> stage_pool_keys, env |-> env, viewer |-> viewer,
     call |-> call, result |-> result, fwd |-> fwd]

Init ==
    /\ constructed = "no"
    /\ random_mode = None
    /\ np_random = fresh_rng
    /\ envs = <<>>
    /\ stage_pool_keys = <<>>
    /\ env = None
    /\ viewer = None
    /\ call = [op |-> "new"]
    /\ result = Ok(<<>>, None)
    /\ fwd = <<>>
    /\ other = obj
    /\ turn = 0

----------------------------------------------------------------------------
(* __init__                                                                *)

\* default_envs with the alternate pool built over the resolver's legal
\* world range 1..12 instead of 1..4
default_envs_wide(mode) ==
    (IF has_smb(mode) THEN all_smb_keys ELSE <<>>)
    \o (IF has_lost_levels(mode) THEN all_keys(TRUE, 12) ELSE <<>>)

\* default_envs building the instances of both variants in every mode
default_envs_both(mode) == all_smb_keys \o all_lost_levels_keys

\* the instances the constructor creates, in creation order
default_envs(mode) ==
    (IF has_smb(mode) THEN all_smb_keys ELSE <<>>)
    \o (IF has_lost_levels(mode) THEN all_lost_levels_keys ELSE <<>>)

\* init_stage_pool_keys appending the defaults of every permitted variant
init_stage_pool_keys_always(stages, mode) ==
    flatten_stages(stages, mode)
    \o (IF has_smb(mode) THEN all_smb_keys ELSE <<>>)
    \o (IF has_lost_levels(mode) THEN all_lost_levels_keys ELSE <<>>)

\* init_stage_pool_keys with the alternate branch testing stages[0]
init_stage_pool_keys_same_test(stages, mode) ==
    flatten_stages(stages, mode)
    \o (IF has_smb(mode) /\ Len(stages.items[1].items) = 0
        THEN all_smb_keys ELSE <<>>)
    \o (IF has_lost_levels(mode) /\ Len(stages.items[1].items) = 0
        THEN all_lost_levels_keys ELSE <<>>)

\* init_stage_pool_keys that never extends the list with defaults
init_stage_pool_keys_no_defaults(stages, mode) ==
    flatten_stages(stages, mode)

\* init_stage_pool_keys putting the defaults ahead of the supplied keys
init_stage_pool_keys_defaults_first(stages, mode) ==
    (IF has_smb(mode) /\ Len(stages.items[1].items) = 0
     THEN all_smb_keys ELSE <<>>)
    \o (IF has_lost_levels(mode) /\ Len(stages.items[2].items) = 0
        THEN all_lost_levels_keys ELSE <<>>)
    \o flatten_stages(stages, mode)

\* self.stage_pool_keys at the end of the constructor
init_stage_pool_keys(stages, mode) ==
    flatten_stages(stages, mode)
    \o (IF has_smb(mode) /\ Len(stages.items[1].items) = 0
        THEN all_smb_keys ELSE <<>>)
    \o (IF has_lost_levels(mode) /\ Len(stages.items[2].items) = 0
        THEN all_lost_levels_keys ELSE <<>>)

\* self.envs[self.stage_pool_keys[0]]
first_env_error(pool, keys) ==
    IF Len(keys) = 0 THEN "IndexError" ELSE getitem_error(pool, keys[1])

\* first_env taking the last key of the list
first_env_last(keys) == keys[Len(keys)]

\* the key of the instance __init__ makes active
first_env(keys) == keys[1]

\* Construct creating the instances before it validates the stages
Construct_validate_late(rom_mode, mode, stages) ==
    /\ constructed = "no"
    /\ call' = [op |-> "__init__", rom_mode |-> rom_mode,
                random_mode |-> mode, stages |-> stages]
    /\ random_mode' = mode
    /\ fwd' = <<>>
    /\ UNCHANGED viewer
    /\ IF rom_mode \notin lost_levels_values /\ has_lost_levels(mode)
       THEN /\ constructed' = "failed"
            /\ result' = RaiseV(Err("ValueError", "rom_mode", -1, -1))
            /\ UNCHANGED <<np_random, envs, stage_pool_keys, env>>
       ELSE /\ np_random' = fresh_rng
            /\ envs' = default_envs(mode)
            /\ IF validate_stages(stages) # NoErr
               THEN /\ constructed' = "failed"
                    /\ result' = RaiseV(validate_stages(stages))
                    /\ UNCHANGED <<stage_pool_keys, env>>
               ELSE LET keys == init_stage_pool_keys(stages, mode)
                        e == first_env_error(envs', keys)
                    IN  /\ stage_pool_keys' = keys
                        /\ IF e # "ok"
                           THEN /\ constructed' = "failed"
                                /\ result' = Raise(e)
                                /\ UNCHANGED env
                           ELSE /\ constructed' = "ok"
                                /\ result' = Ok(<<>>, None)
                                /\ env' = first_env(keys)

Construct(rom_mode, mode, stages) ==
    /\ constructed = "no"
    /\ call' = [op |-> "__init__", rom_mode |-> rom_mode,
                random_mode |-> mode, stages |-> stages]
    /\ random_mode' = mode
    /\ fwd' = <<>>
    /\ UNCHANGED viewer
    /\ IF rom_mode \notin lost_levels_values /\ has_lost_levels(mode)
       THEN /\ constructed' = "failed"
            /\ result' = RaiseV(Err("ValueError", "rom_mode", -1, -1))
            /\ UNCHANGED <<np_random, envs, stage_pool_keys, env>>
       ELSE /\ np_random' = fresh_rng
            /\ IF validate_stages(stages) # NoErr
               THEN /\ constructed' = "failed"
                    /\ result' = RaiseV(validate_stages(stages))
                    /\ envs' = <<>>
                    /\ UNCHANGED <<stage_pool_keys, env>>
               ELSE LET keys == init_stage_pool_keys(stages, mode)
                        pool == default_envs(mode)
                        e == first_env_error(pool, keys)
                    IN  /\ stage_pool_keys' = keys
                        /\ envs' = pool
                        /\ IF e # "ok"
                           THEN /\ constructed' = "failed"
                                /\ result' = Raise(e)
                                /\ UNCHANGED env
                           ELSE /\ constructed' = "ok"
                                /\ result' = Ok(<<>>, None)
                                /\ env' = first_env(keys)

----------------------------------------------------------------------------
(* seed                                                                    *)

\* the generator after self.seed(seed)
seeded_rng(rng, seed) == IF seed = NoSeed THEN rng ELSE default_rng(seed)

\* seed_return echoing the argument even when it is the no-seed sentinel
seed_return_always(seed) == <<seed>>

seed_return(seed) == IF seed = NoSeed THEN <<>> ELSE <<seed>>

\* Seed that also makes the first selectable key active again
Seed_rewind(seed) ==
    /\ constructed = "ok"
    /\ call' = [op |-> "seed", seed |-> seed]
    /\ np_random' = seeded_rng(np_random, seed)
    /\ result' = Ok(seed_return(seed), None)
    /\ fwd' = <<>>
    /\ env' = IF env = None THEN None ELSE first_env(stage_pool_keys)
    /\ UNCHANGED <<constructed, random_mode, envs, stage_pool_keys, viewer>>

Seed(seed) ==
    /\ constructed = "ok"
    /\ call' = [op |-> "seed", seed |-> seed]
    /\ np_random' = seeded_rng(np_random, seed)
    /\ result' = Ok(seed_return(seed), None)
    /\ fwd' = <<>>
    /\ UNCHANGED <<constructed, random_mode, envs,
                   stage_pool_keys, env, viewer>>

----------------------------------------------------------------------------
(* reset                                                                   *)

\* whether the draw of this reset stays within the tracked positions
CanDraw(rng) == rng.seeded => rng.pos < MaxDraws

\* reset_draw forwarding to the instance that was active before the call
reset_draw_stale(rng, keys, seed, options) ==
    \E idx \in integers(rng, Len(keys)) :
        LET chosen_key == keys[idx + 1]
            e == getitem_error(envs, chosen_key)
        IN  /\ np_random' = advance(rng)
            /\ IF e # "ok"
               THEN /\ result' = Raise(e)
                    /\ fwd' = <<>>
                    /\ UNCHANGED env
               ELSE /\ env' = chosen_key
                    /\ fwd' = <<[op |-> "reset", key |-> env,
                                 seed |-> seed, options |-> options]>>
                    /\ result' = Ok(<<>>, env)

\* the tail of reset, from the draw on: keys is the list drawn from
reset_draw(rng, keys, seed, options) ==
    \E idx \in integers(rng, Len(keys)) :
        LET chosen_key == keys[idx + 1]
            e == getitem_error(envs, chosen_key)
        IN  /\ np_random' = advance(rng)
            /\ IF e # "ok"
               THEN /\ result' = Raise(e)
                    /\ fwd' = <<>>
                    /\ UNCHANGED env
               ELSE /\ env' = chosen_key
                    /\ fwd' = <<[op |-> "reset", key |-> chosen_key,
                                 seed |-> seed, options |-> options]>>
                    /\ result' = Ok(<<>>, chosen_key)

\* reset_fail of a reset that validates before it seeds
reset_fail_unseeded(rng, r) ==
    /\ UNCHANGED np_random
    /\ result' = r
    /\ fwd' = <<>>
    /\ UNCHANGED env

\* the exits of reset before the draw
reset_fail(rng, r) ==
    /\ np_random' = rng
    /\ result' = r
    /\ fwd' = <<>>
    /\ UNCHANGED env

\* Reset that keeps the flattened override as the new self.stage_pool_keys
Reset_persist(seed, options) ==
    /\ constructed = "ok"
    /\ CanDraw(seeded_rng(np_random, seed))
    /\ call' = [op |-> "reset", seed |-> seed, options |-> options]
    /\ UNCHANGED <<constructed, random_mode, envs, viewer>>
    /\ LET rng == seeded_rng(np_random, seed)
       IN  IF options.kind = "int"
           THEN reset_fail(rng, Raise("TypeError")) /\ UNCHANGED stage_pool_keys
           ELSE IF options.kind # "NoneType" /\ options.has_stages
                   /\ options.kind = "dict"
           THEN IF validate_stages(options.stages) # NoErr
                THEN /\ reset_fail(rng, RaiseV(validate_stages(options.stages)))
                     /\ UNCHANGED stage_pool_keys
                ELSE /\ stage_pool_keys' =
                            flatten_stages(options.stages, random_mode)
                     /\ IF Len(stage_pool_keys') = 0
                        THEN reset_fail(rng, Raise("ValueError"))
                        ELSE reset_draw(rng, stage_pool_keys', seed, options)
           ELSE /\ UNCHANGED stage_pool_keys
                /\ IF Len(stage_pool_keys) = 0
                   THEN reset_fail(rng, Raise("ValueError"))
                   ELSE reset_draw(rng, stage_pool_keys, seed, options)

Reset(seed, options) ==
    /\ constructed = "ok"
    /\ CanDraw(seeded_rng(np_random, seed))
    /\ call' = [op |-> "reset", seed |-> seed, options |-> options]
    /\ UNCHANGED <<constructed, random_mode, envs,
                   stage_pool_keys, viewer>>
    /\ LET rng == seeded_rng(np_random, seed)
       IN  IF options.kind = "int"
           THEN reset_fail(rng, Raise("TypeError"))
           ELSE IF options.kind # "NoneType" /\ options.has_stages
                   /\ options.kind = "dict"
           THEN IF validate_stages(options.stages) # NoErr
                THEN reset_fail(rng, RaiseV(validate_stages(options.stages)))
                ELSE LET new_stage_pool_keys ==
                             flatten_stages(options.stages, random_mode)
                     IN  IF Len(new_stage_pool_keys) = 0
                         THEN reset_fail(rng, Raise("ValueError"))
                         ELSE reset_draw(rng, new_stage_pool_keys,
                                         seed, options)
           ELSE IF Len(stage_pool_keys) = 0
                THEN reset_fail(rng, Raise("ValueError"))
                ELSE reset_draw(rng, stage_pool_keys, seed, options)

----------------------------------------------------------------------------
(* step, get_keys_to_action, get_action_meanings                           *)

\* assert self.env is not None, "Environment not initialized or closed."
unset_error == "AssertionError"

\* Forward without the assert: the call is forwarded whatever env is
Forward_noassert(c, f) ==
    /\ constructed = "ok"
    /\ call' = c
    /\ result' = Ok(<<>>, env)
    /\ fwd' = <<f>>
    /\ UNCHANGED <<constructed, random_mode, np_random, envs,
                   stage_pool_keys, env, viewer>>

Forward(c, f) ==
    /\ constructed = "ok"
    /\ call' = c
    /\ IF env = None
       THEN /\ result' = Raise(unset_error)
            /\ fwd' = <<>>
       ELSE /\ result' = Ok(<<>>, env)
            /\ fwd' = <<f>>
    /\ UNCHANGED <<constructed, random_mode, np_random, envs,
                   stage_pool_keys, env, viewer>>

Step(action) ==
    Forward([op |-> "step", action |-> action],
            [op |-> "step", key |-> env, action |-> action])

GetKeysToAction ==
    Forward([op |-> "get_keys_to_action"],
            [op |-> "get_keys_to_action", key |-> env])

GetActionMeanings ==
    Forward([op |-> "get_action_meanings"],
            [op |-> "get_action_meanings", key |-> env])

----------------------------------------------------------------------------
(* close.  fail_at is the position, in the iteration order of self.envs,   *)
(* of the instance whose close() raises; 0 when none does.  self.viewer is *)
(* None in every state: __init__ sets it and no method of the class        *)
(* assigns it, so the viewer branch of close never runs.                   *)

FailPoints(n) == {0, 1, 2, n}

\* closes that misses the last instance of the iteration
closes_short(pool, n) ==
    [k \in 1..(n - 1) |-> [op |-> "close", key |-> pool[k]]]

closes(pool, n) == [k \in 1..n |-> [op |-> "close", key |-> pool[k]]]

\* Close without the test for an already closed multiplexer
Close_noguard(fail_at) ==
    /\ constructed = "ok"
    /\ call' = [op |-> "close", fail_at |-> fail_at]
    /\ UNCHANGED <<constructed, random_mode, np_random, envs,
                   stage_pool_keys>>
    /\ IF fail_at # 0
       THEN /\ result' = Raise("InstanceCloseError")
            /\ fwd' = closes(envs, fail_at)
            /\ UNCHANGED <<env, viewer>>
       ELSE /\ result' = Ok(<<>>, None)
            /\ fwd' = closes(envs, Len(envs))
            /\ env' = None
            /\ UNCHANGED viewer

Close(fail_at) ==
    /\ constructed = "ok"
    /\ call' = [op |-> "close", fail_at |-> fail_at]
    /\ UNCHANGED <<constructed, random_mode, np_random, envs,
                   stage_pool_keys>>
    /\ IF env = None
       THEN /\ result' = Raise("ValueError")
            /\ fwd' = <<>>
            /\ UNCHANGED <<env, viewer>>
       ELSE IF fail_at # 0
       THEN /\ result' = Raise("InstanceCloseError")
            /\ fwd' = closes(envs, fail_at)
            /\ UNCHANGED <<env, viewer>>
       ELSE /\ result' = Ok(<<>>, None)
            /\ fwd' = closes(envs, Len(envs))
            /\ env' = None
            /\ UNCHANGED viewer

----------------------------------------------------------------------------

\* a call on the one multiplexer of Spec
Solo == UNCHANGED <<other, turn>>

Next ==
    \/ \E rom_mode \in rom_modes_values, mode \in RandomModes,
          stages \in CtorStages : Construct(rom_mode, mode, stages) /\ Solo
    \/ \E seed \in SeedArgs : Seed(seed) /\ Solo
    \/ \E seed \in SeedArgs, options \in Options :
          Reset(seed, options) /\ Solo
    \/ \E action \in Actions : Step(action) /\ Solo
    \/ GetKeysToAction /\ Solo
    \/ GetActionMeanings /\ Solo
    \/ \E fail_at \in FailPoints(Len(envs)) : Close(fail_at) /\ Solo

Spec == Init /\ [][Next]_vars

----------------------------------------------------------------------------
(* Two multiplexers receiving the same calls: construction, then seed with *)
(* a value, then resets that pass no seed of their own, with any options.  *)

ScenarioCall ==
    \/ \E rom_mode \in rom_modes_values, mode \in RandomModes,
          stages \in CtorStages : Construct(rom_mode, mode, stages)
    \/ \E seed \in Seeds : call.op = "__init__" /\ Seed(seed)
    \/ \E options \in Options :
          call.op \in {"seed", "reset"} /\ Reset(NoSeed, options)

\* the first multiplexer is called
First ==
    /\ turn = 0
    /\ ScenarioCall
    /\ turn' = 1
    /\ UNCHANGED other

\* the two multiplexers change places
Swap ==
    /\ turn \in {1, 3}
    /\ turn' = (turn + 1) % 4
    /\ other' = obj
    /\ constructed' = other.constructed
    /\ random_mode' = other.random_mode
    /\ np_random' = other.np_random
    /\ envs' = other.envs
    /\ stage_pool_keys' = other.stage_pool_keys
    /\ env' = other.env
    /\ viewer' = other.viewer
    /\ call' = other.call
    /\ result' = other.result
    /\ fwd' = other.fwd

\* the second multiplexer receives the call the first one received
Second ==
    /\ turn = 2
    /\ ScenarioCall
    /\ call' = other.call
    /\ turn' = 3
    /\ UNCHANGED other

PairNext == First \/ Swap \/ Second

PairSpec == Init /\ [][PairNext]_vars

----------------------------------------------------------------------------------------------------------------------------------------
(* The pure functions, each applied to one argument list.  The initial     *)
(* state holds the pending call, op "new" with the function fn and its     *)
(* arguments; applying it records the call and what it returned or raised. *)
(* No multiplexer exists in these behaviours.                              *)

\* the largest world and stage numbers passed to decode_target
MaxWorld == 13
MaxStage == 5

Worlds == (-1)..MaxWorld
Stages == (-1)..MaxStage

Targets ==
    { PyNone, PyInt(3), PyTuple(<<PyInt(1)>>),
      PyTuple(<<PyInt(1), PyInt(1), PyInt(1)>>),
      PyTuple(<<PyFloat(1), PyInt(1)>>), PyTuple(<<PyInt(1), PyFloat(1)>>),
      PyTuple(<<PyBool(TRUE), PyInt(2)>>) }
    \cup { WS(w, s) : w \in Worlds, s \in Stages }
    \cup { WSList(w, s) : w \in Worlds, s \in Stages }

LostLevelsArgs == {PyBool(FALSE), PyBool(TRUE), PyInt(1), PyNone}

\* the longest stage group passed to validate_stages and flatten_stages
MaxLen == 2

Entries ==
    { WS(1, 1), WS(2, 3), WSList(1, 2),
      PyTuple(<<PyFloat(1), PyFloat(1)>>), PyInt(7) }

Groups ==
    { PyList(q) : q \in UNION {[1..n -> Entries] : n \in 0..MaxLen} }
    \cup { PySet(<<>>), PySet(<<WS(1, 1)>>), PyTuple(<<WS(1, 1), WS(1, 1)>>),
           PyList(<<WS(1, 1), PyTuple(<<PyInt(1)>>)>>),
           PyList(<<PyTuple(<<PyBool(TRUE), PyInt(1)>>)>>),
           PyInt(5), PyNone }

\* the stages arguments that are not a tuple of two of the groups
OddSpecs ==
    { PyList(<<PyList(<<>>), PyList(<<>>)>>),
      PyList(<<PyList(<<WS(1, 1)>>), PyList(<<WS(1, 1)>>)>>),
      PyTuple(<<PySet(<<>>), PySet(<<>>), PySet(<<>>)>>),
      PyTuple(<<PySet(<<>>)>>), PyInt(5), PyNone, PySet(<<>>) }

\* a pending call of validate_stages
ValidateCall(stages) ==
    call = [op |-> "new", fn |-> "validate_stages", stages |-> stages]

\* a pending call of flatten_stages, on a validated stages argument as in
\* both of its callers
FlattenCall(stages, mode) ==
    /\ validate_stages(stages) = NoErr
    /\ call = [op |-> "new", fn |-> "flatten_stages", stages |-> stages,
               random_mode |-> mode]

FunInit ==
    /\ constructed = "no"
    /\ random_mode = None
    /\ np_random = fresh_rng
    /\ envs = <<>>
    /\ stage_pool_keys = <<>>
    /\ env = None
    /\ viewer = None
    /\ result = Ok(<<>>, None)
    /\ fwd = <<>>
    /\ turn = 0
    /\ \/ \E target \in Targets, lost_levels \in LostLevelsArgs :
             call = [op |-> "new", fn |-> "decode_target",
                     target |-> target, lost_levels |-> lost_levels]
       \/ \E a \in Groups, b \in Groups : ValidateCall(Spec2(a, b))
       \/ \E stages \in OddSpecs : ValidateCall(stages)
       \/ \E a \in Groups, b \in Groups, mode \in RandomModes :
             FlattenCall(Spec2(a, b), mode)
       \/ \E stages \in OddSpecs, mode \in RandomModes :
             FlattenCall(stages, mode)
    /\ other = obj

\* what applying a function leaves alone
Pure ==
    UNCHANGED <<constructed, random_mode, np_random, envs,
                stage_pool_keys, env, viewer, fwd, other, turn>>

DecodeTarget ==
    /\ call.op = "new" /\ call.fn = "decode_target"
    /\ call' = [op |-> "decode_target", target |-> call.target,
                lost_levels |-> call.lost_levels]
    /\ result' = IF decode_target_error(call.target, call.lost_levels) # NoErr
                 THEN RaiseV(decode_target_error(call.target,
                                                 call.lost_levels))
                 ELSE Ok(decode_target(call.target, call.lost_levels), None)
    /\ Pure

ValidateStages ==
    /\ call.op = "new" /\ call.fn = "validate_stages"
    /\ call' = [op |-> "validate_stages", stages |-> call.stages]
    /\ result' = IF validate_stages(call.stages) # NoErr
                 THEN RaiseV(validate_stages(call.stages))
                 ELSE Ok(<<>>, None)
    /\ Pure

FlattenStages ==
    /\ call.op = "new" /\ call.fn = "flatten_stages"
    /\ call' = [op |-> "flatten_stages", stages |-> call.stages,
                random_mode |-> call.random_mode]
    /\ result' = Ok(flatten_stages(call.stages, call.random_mode), None)
    /\ Pure

FunNext == DecodeTarget \/ ValidateStages \/ FlattenStages

FunSpec == FunInit /\ [][FunNext]_vars

----------------
(* Vocabulary of the properties.                                           *)

\* the multiplexer is Open when ActiveInstance is set, Closed when unset
Open == constructed = "ok" /\ env # None
Closed == constructed = "ok" /\ env = None

\* the exceptions the code raises for an illegal state
IllegalState == {"ValueError", "AssertionError"}

\* the fields of the multiplexer
fields == <<random_mode, np_random, envs, stage_pool_keys, env, viewer>>

Count(seq, x) == Cardinality({k \in DOMAIN seq : seq[k] = x})

OfVariant(keys, lost_levels) == {k \in keys : k[1] = lost_levels}

\* the default cross-product of a variant, as the specification states it
DefaultKeys(lost_levels) ==
    {<<lost_levels, "tuple", w, s>> :
        w \in 1..(IF lost_levels THEN 4 ELSE 8), s \in 1..4}

Permitted(mode, lost_levels) ==
    IF lost_levels THEN has_lost_levels(mode) ELSE has_smb(mode)

\* the state right after a successful construction
JustConstructed == constructed = "ok" /\ call.op = "__init__"

\* the input collection of a variant in the constructor call
Collection(lost_levels) == call.stages.items[IF lost_levels THEN 2 ELSE 1]

EmptySpec == Spec2(PySet(<<>>), PySet(<<>>))

----------------------------------------------------------------------------
(* Lifecycle: Open and Closed.                                             *)

\* C1: once close() has succeeded (ActiveInstance unset), no later seed,
\* reset, step or close sets ActiveInstance again.  The code's reset does
\* not test for the closed state and makes an instance active again.
C1_ClosedIsTerminal == [][Closed => env' = None]_vars

\* C2: reset() on a Closed multiplexer fails with IllegalState and forwards
\* reset to no pooled instance.  The code's reset draws a key, makes its
\* instance active and forwards reset to it.
C2_ResetOnClosedFails ==
    [][(Closed /\ call'.op = "reset")
         => (result'.exc \in IllegalState /\ fwd' = <<>>)]_vars

\* C3: whenever ActiveInstance is unset, step, get_keys_to_action and
\* get_action_meanings fail, forward nothing and leave every field of the
\* multiplexer unchanged.
C3_ForwardingFailsWhenUnset ==
    [][(Closed /\ call'.op \in {"step", "get_keys_to_action",
                                "get_action_meanings"})
         => (/\ result'.exc \in IllegalState
             /\ fwd' = <<>>
             /\ fields' = fields)]_vars

C3_Witness ==
    /\ Closed
    /\ call.op = "step"
    /\ result.exc = "AssertionError"
    /\ fwd = <<>>

\* C4: close() on a Closed multiplexer fails with IllegalState and forwards
\* close to no pooled instance.
C4_SecondCloseFails ==
    [][(Closed /\ call'.op = "close")
         => (/\ result'.exc \in IllegalState
             /\ fwd' = <<>>
             /\ env' = None)]_vars

C4_Witness ==
    /\ Closed
    /\ call.op = "close"
    /\ result.exc = "ValueError"
    /\ fwd = <<>>

\* C5: when the close of one pooled instance fails, close is still
\* forwarded to every other pooled instance, ActiveInstance ends unset and
\* the failure is surfaced.  The code stops at the first failing instance.
C5_ClosePartialFailureTolerant ==
    [][(Open /\ call'.op = "close" /\ call'.fail_at # 0)
         => (/\ \A k \in Range(envs) :
                   Count(fwd', [op |-> "close", key |-> k]) >= 1
             /\ env' = None
             /\ result'.exc # "ok")]_vars

\* C6: when no pooled instance's close fails, close() on an Open
\* multiplexer forwards close to every pooled instance exactly once and
\* nothing else, and leaves ActiveInstance unset.
C6_CloseForwardsToAllOnce ==
    [][(Open /\ call'.op = "close" /\ call'.fail_at = 0)
         => (/\ \A k \in Range(envs) :
                   Count(fwd', [op |-> "close", key |-> k]) = 1
             /\ Len(fwd') = Cardinality(Range(envs))
             /\ env' = None
             /\ result'.exc = "ok")]_vars

C6_Witness ==
    /\ Closed
    /\ call.op = "close"
    /\ result.exc = "ok"
    /\ random_mode = BOTH
    /\ Len(fwd) = 48
    /\ np_random.seeded

----------------------------------------------------------------------------
(* Construction: the pool and the selectable key list.                     *)

\* C7: after every successful construction each key of SelectableKeyList
\* is a key of EnvironmentPool, so a reset without override never fails
\* with KeyNotFound.  The code pools the default keys only, and checks only
\* the first key of the list.
C7_PoolCoversSelectableKeys ==
    /\ constructed = "ok" => Range(stage_pool_keys) \subseteq Range(envs)
    /\ (constructed = "ok" /\ call.op = "reset"
        /\ ~(call.options.kind = "dict" /\ call.options.has_stages))
           => result.exc # "KeyError"

\* whether a reset call gets as far as drawing a key
ReachesDraw(c) ==
    /\ c.options.kind # "int"
    /\ IF c.options.kind = "dict" /\ c.options.has_stages
       THEN /\ validate_stages(c.options.stages) = NoErr
            /\ Len(flatten_stages(c.options.stages, random_mode)) > 0
       ELSE Len(stage_pool_keys) > 0

\* C8: reset makes a key active only if EnvironmentPool holds an instance
\* for it; a reset that draws a key (from the persistent list or from an
\* override) that is not in EnvironmentPool fails with KeyNotFound, forwards
\* nothing and leaves ActiveInstance as it was.  A stage written as a list
\* passes validation and then fails the lookup with TypeError.
C8_UnpooledKeyIsKeyNotFound ==
    [][(constructed = "ok" /\ call'.op = "reset" /\ ReachesDraw(call'))
         => /\ result'.exc = "ok" => env' \in Range(envs)
            /\ result'.exc # "ok" =>
                 (/\ result'.exc = "KeyError"
                  /\ fwd' = <<>>
                  /\ env' = env)]_vars

C10_DefaultsOnceEach ==
    JustConstructed =>
        /\ \A ll \in BOOLEAN :
              (Permitted(random_mode, ll) /\ Len(Collection(ll).items) = 0)
                  => \A k \in DefaultKeys(ll) :
                        Count(envs, k) = 1 /\ Count(stage_pool_keys, k) = 1
        /\ (random_mode = BOTH /\ call.stages = EmptySpec)
              => /\ Len(stage_pool_keys) = 48
                 /\ Range(stage_pool_keys) = DefaultKeys(FALSE) \cup DefaultKeys(TRUE)

C10_Witness ==
    /\ JustConstructed
    /\ random_mode = BOTH
    /\ call.stages = EmptySpec
    /\ Len(stage_pool_keys) = 48
    /\ Cardinality(Range(stage_pool_keys)) = 48

\* the keys of one variant in a key list, in list order
VariantKeys(keys, lost_levels) ==
    LET OfIt(k) == k[1] = lost_levels IN SelectSeq(keys, OfIt)

\* C11: for a permitted variant whose input collection is non-empty, the
\* entries of that variant in SelectableKeyList are exactly the supplied
\* entries, in input order and with their duplicates; no default key of the
\* variant is added.
C11_SuppliedEntriesVerbatim ==
    JustConstructed =>
        \A ll \in BOOLEAN :
            (Permitted(random_mode, ll) /\ Len(Collection(ll).items) > 0)
                => VariantKeys(stage_pool_keys, ll) =
                       [k \in 1..Len(Collection(ll).items) |->
                           StageKey(ll, Collection(ll).items[k])]

C11_Witness ==
    /\ JustConstructed
    /\ random_mode = BOTH
    /\ Collection(FALSE) = PyList(<<WS(1, 2), WS(1, 1), WS(1, 2)>>)
    /\ VariantKeys(stage_pool_keys, FALSE) =
           <<StageKey(FALSE, WS(1, 2)), StageKey(FALSE, WS(1, 1)),
             StageKey(FALSE, WS(1, 2))>>
    /\ Len(stage_pool_keys) = 3 + 16

\* C12: immediately after a successful construction ActiveInstance is the
\* EnvironmentPool entry for the first element of SelectableKeyList.
C12_InitialActiveIsFirstKey ==
    JustConstructed =>
        /\ env = stage_pool_keys[1]
        /\ env \in Range(envs)
        /\ fwd = <<>>

C12_Witness ==
    /\ JustConstructed
    /\ Len(stage_pool_keys) > 1
    /\ stage_pool_keys[1] # stage_pool_keys[Len(stage_pool_keys)]
    /\ env = stage_pool_keys[1]

\* the failure of the rendering-configuration check of __init__
RomModeRejected ==
    /\ constructed = "failed"
    /\ result.exc = "ValueError"
    /\ result.err.cls = "rom_mode"

\* C13: construction fails with InvalidArgument whenever the mode permits
\* the alternate variant and the rendering configuration is pixel-only or
\* rectangle-only, and passes this check for every other combination of
\* the two enumerations.
C13_RomModeCheck ==
    call.op = "__init__" =>
        (RomModeRejected <=>
            (/\ call.random_mode \in {LOST_LEVELS_ONLY, BOTH}
             /\ call.rom_mode \in {"pixel", "rectangle"}))

C13_Witness ==
    /\ call.op = "__init__"
    /\ call.random_mode = BOTH
    /\ call.rom_mode = "pixel"
    /\ call.stages = EmptySpec
    /\ RomModeRejected
    /\ envs = <<>>

----------------------------------------------------------------------------
(* reset: the draw.                                                        *)

NoOptions == [kind |-> "NoneType", has_stages |-> FALSE, stages |-> PyNone]

\* whether the options of a reset call carry a stages override
HasOverride(options) == options.kind = "dict" /\ options.has_stages

\* a reset without override whose outcome is that of drawing index i of
\* the persistent list
DrawsIndex(i) ==
    /\ Reset(NoSeed, NoOptions)
    /\ IF stage_pool_keys[i] \in Range(envs)
       THEN result'.exc = "ok" /\ env' = stage_pool_keys[i]
       ELSE result'.exc # "ok" /\ env' = env

\* C14: after a successful reset without a stages override the key of
\* ActiveInstance is an element of the persistent SelectableKeyList, and
\* with a generator seeded from entropy every index of that list is a
\* possible outcome of such a reset.
C14_DrawFromPersistentList ==
    /\ (constructed = "ok" /\ call.op = "reset" /\ ~HasOverride(call.options)
        /\ result.exc = "ok")
           => env \in Range(stage_pool_keys)
    /\ (constructed = "ok" /\ ~np_random.seeded)
           => \A i \in DOMAIN stage_pool_keys : ENABLED DrawsIndex(i)

C14_Witness ==
    /\ constructed = "ok"
    /\ call.op = "reset"
    /\ call.options = NoOptions
    /\ result.exc = "ok"
    /\ ~np_random.seeded
    /\ Len(stage_pool_keys) = 48
    /\ env = stage_pool_keys[48]

\* the keys an override names for the variants a mode permits
OverrideKeys(stages, mode) ==
    UNION {{StageKey(ll, stages.items[IF ll THEN 2 ELSE 1].items[k]) :
              k \in 1..Len(stages.items[IF ll THEN 2 ELSE 1].items)} :
           ll \in {b \in BOOLEAN : Permitted(mode, b)}}

\* C15: a reset whose options carry a (well-formed) stages override draws
\* only from the override flattened with the construction-time mode: on
\* success the key of ActiveInstance is one of the override's keys of a
\* permitted variant, and when there is no such key reset fails with
\* InvalidArgument, forwards nothing and leaves ActiveInstance unchanged.
C15_OverrideDraw ==
    [][(/\ constructed = "ok"
        /\ call'.op = "reset"
        /\ HasOverride(call'.options)
        /\ validate_stages(call'.options.stages) = NoErr)
         => LET keys == OverrideKeys(call'.options.stages, random_mode)
            IN  /\ result'.exc = "ok" => env' \in keys
                /\ keys = {} => (/\ result'.exc = "ValueError"
                                 /\ fwd' = <<>>
                                 /\ env' = env)]_vars

C15_Witness ==
    /\ Open
    /\ random_mode = SMB_ONLY
    /\ call.op = "reset"
    /\ HasOverride(call.options)
    /\ call.options.stages = Spec2(PyList(<<>>), PyList(<<WS(1, 1)>>))
    /\ result.exc = "ValueError"
    /\ fwd = <<>>

----------------------------------------------------------------------------
(* Frame conditions.                                                       *)

\* C16: EnvironmentPool and SelectableKeyList (and the mode) are fixed at
\* construction: no seed, reset (with or without override, succeeding or
\* failing), step, getter or close changes them, so the list a later reset
\* without override draws from is the construction-time list.
C16_PoolAndListImmutable ==
    [][constructed = "ok"
         => (/\ envs' = envs
             /\ stage_pool_keys' = stage_pool_keys
             /\ random_mode' = random_mode)]_vars

\* an override made a key active that the persistent list does not hold
C16_Witness ==
    /\ Open
    /\ call.op = "reset"
    /\ HasOverride(call.options)
    /\ result.exc = "ok"
    /\ env \notin Range(stage_pool_keys)
    /\ Len(stage_pool_keys) = 3

\* C17: while the multiplexer is Open, seed, step, get_keys_to_action and
\* get_action_meanings leave ActiveInstance unchanged (only reset reassigns
\* it, and close unsets it), and a step goes to the instance that was
\* active before it, the one the last reset or the constructor chose.
C17_ActiveChangedOnlyByReset ==
    [][Open =>
         /\ call'.op \in {"seed", "step", "get_keys_to_action",
                          "get_action_meanings"} => env' = env
         /\ env' # env => call'.op \in {"reset", "close"}
         /\ (env' # env /\ env' # None) => call'.op = "reset"
         /\ call'.op = "step" =>
               fwd' = <<[op |-> "step", key |-> env,
                         action |-> call'.action]>>]_vars

C17_Witness ==
    /\ Open
    /\ call.op = "step"
    /\ np_random.seeded
    /\ env # stage_pool_keys[1]
    /\ fwd = <<[op |-> "step", key |-> env, action |-> call.action]>>

\* C19: seed(value) returns the empty sequence for the no-seed sentinel and
\* leaves the generator as it is; otherwise it returns [value] and replaces
\* the generator by a fresh one seeded with value.  In both cases it
\* forwards nothing and leaves ActiveInstance, EnvironmentPool and
\* SelectableKeyList unchanged.
C19_Seed ==
    [][(constructed = "ok" /\ call'.op = "seed")
         => (/\ result'.exc = "ok"
             /\ IF call'.seed = NoSeed
                THEN result'.ret = <<>> /\ np_random' = np_random
                ELSE /\ result'.ret = <<call'.seed>>
                     /\ np_random' = [seeded |-> TRUE, seed |-> call'.seed,
                                      pos |-> 0]
             /\ fwd' = <<>>
             /\ env' = env
             /\ envs' = envs
             /\ stage_pool_keys' = stage_pool_keys)]_vars

\* a seed call that replaced a generator which had already drawn
C19_Witness ==
    /\ Open
    /\ call.op = "seed"
    /\ call.seed = 0
    /\ result.ret = <<0>>
    /\ np_random = [seeded |-> TRUE, seed |-> 0, pos |-> 0]
    /\ env # stage_pool_keys[1]

\* C20: every forwarded call goes to exactly one pooled instance: a
\* successful reset forwards reset(seed, options) only to the instance of
\* the key it made active and returns that instance's result, a failing
\* reset forwards nothing, and step forwards only to the current
\* ActiveInstance and returns its result.
C20_ForwardToExactlyOne ==
    [][constructed = "ok" =>
         /\ (call'.op = "reset" /\ result'.exc = "ok") =>
               /\ fwd' = <<[op |-> "reset", key |-> env',
                            seed |-> call'.seed, options |-> call'.options]>>
               /\ env' \in Range(envs)
               /\ result'.by = env'
         /\ (call'.op = "reset" /\ result'.exc # "ok") => fwd' = <<>>
         /\ (call'.op = "step" /\ env # None) =>
               /\ fwd' = <<[op |-> "step", key |-> env,
                            action |-> call'.action]>>
               /\ result'.by = env]_vars

\* a reset that moved from one instance to another
C20_Witness ==
    /\ Open
    /\ call.op = "reset"
    /\ result.exc = "ok"
    /\ env # stage_pool_keys[1]
    /\ Len(fwd) = 1
    /\ fwd[1].key = env
    /\ result.by = env

----------------------------------------------------------------------------
(* Determinism.                                                            *)

\* C18: two multiplexers constructed with the same arguments, each seeded
\* with the same value and then reset any number of times with the same
\* reset arguments, make the same StageKey active at every reset (and fail
\* alike when a reset fails); checked under PairSpec at the end of each
\* round, when both have received the call.
C18_SameSeedSameKeys ==
    (turn = 0 /\ constructed = "ok" /\ call.op \in {"seed", "reset"})
        => /\ other.call = call
           /\ other.env = env
           /\ other.result = result
           /\ other.fwd = fwd
           /\ other.np_random = np_random

\* both multiplexers have made two draws since the seed and the second
\* reset moved both to the same instance
C18_Witness ==
    /\ turn = 0
    /\ constructed = "ok"
    /\ call.op = "reset"
    /\ call.seed = NoSeed
    /\ np_random.seeded /\ np_random.pos = 2
    /\ result.exc = "ok"
    /\ Len(stage_pool_keys) = 48
    /\ env # stage_pool_keys[1]
    /\ other.env = env

----------------------------------------------------------------------------
(* The target resolver.                                                    *)

\* a decode_target call on a (world, stage) of integers and a variant
ResolveCall ==
    /\ call.op = "decode_target"
    /\ call.lost_levels.ty = "bool"
    /\ call.target.ty \in {"tuple", "list"}
    /\ Len(call.target.items) = 2
    /\ call.target.items[1].ty = "int"
    /\ call.target.items[2].ty = "int"

ResolveWorld == call.target.items[1].val
ResolveStage == call.target.items[2].val
ResolveAlternate == call.lost_levels.val = 1

\* the (world, stage, variant) the resolver has an area for
Legal(w, s, alternate) ==
    /\ w \in 1..(IF alternate THEN 4 ELSE 8)
    /\ s \in 1..4

\* the resolver's range failures
OutOfRange(r) ==
    /\ r.exc = "ValueError"
    /\ r.err.cls \in {"world_range", "stage_range", "unsupported_world"}

\* C21: for every legal (world, stage, variant) resolve returns
\* (world, stage, area) with area = stage + 1 exactly when stage >= 2 and
\* (variant base and world in {1,2,4,7}, or variant alternate and world in
\* {1,3}), and area = stage otherwise; with no target it returns
\* (None, None, None); resolve(1,2,base) = (1,2,3), resolve(1,1,base) =
\* (1,1,1) and resolve(1,2,alternate) = (1,2,3).
C21_ResolveArea ==
    /\ (ResolveCall /\ Legal(ResolveWorld, ResolveStage, ResolveAlternate))
          => LET bump == /\ ResolveStage >= 2
                         /\ \/ ~ResolveAlternate
                                  /\ ResolveWorld \in {1, 2, 4, 7}
                            \/ ResolveAlternate /\ ResolveWorld \in {1, 3}
             IN  /\ result.exc = "ok"
                 /\ result.ret[1] = ResolveWorld
                 /\ result.ret[2] = ResolveStage
                 /\ result.ret[3] =
                       (IF bump THEN ResolveStage + 1 ELSE ResolveStage)
                 /\ result.ret[3] \in {ResolveStage, ResolveStage + 1}
    /\ (call.op = "decode_target" /\ call.lost_levels.ty = "bool"
        /\ call.target = PyNone)
          => result.exc = "ok" /\ result.ret = <<None, None, None>>
    /\ (ResolveCall /\ ResolveWorld = 1 /\ ResolveStage = 2)
          => result.ret = <<1, 2, 3>>
    /\ (ResolveCall /\ ResolveWorld = 1 /\ ResolveStage = 1)
          => result.ret = <<1, 1, 1>>

C21_Witness ==
    /\ ResolveCall
    /\ ResolveAlternate
    /\ ResolveWorld = 3 /\ ResolveStage = 2
    /\ result.exc = "ok"
    /\ result.ret = <<3, 2, 3>>

\* C22: resolve fails with OutOfRange, and returns no area, for every
\* integer (world, stage) outside the variant's bounds (base: world outside
\* 1..8; alternate: world outside 1..12; stage outside 1..4 for both) and
\* for every alternate-variant world in 5..12 with any stage in 1..4.
C22_ResolveOutOfRange ==
    (/\ ResolveCall
     /\ \/ ResolveWorld \notin 1..(IF ResolveAlternate THEN 12 ELSE 8)
        \/ ResolveStage \notin 1..4
        \/ ResolveAlternate /\ ResolveWorld \in 5..12)
       => OutOfRange(result) /\ result.ret = <<>>

C22_Witness ==
    /\ ResolveCall
    /\ ResolveAlternate
    /\ ResolveWorld = 5 /\ ResolveStage = 1
    /\ OutOfRange(result)
    /\ result.err.cls = "unsupported_world"

----------------------------------------------------------------------------
(* The stage specification validator.                                      *)

TwoSequence(stages) ==
    stages.ty \in {"list", "tuple"} /\ Len(stages.items) = 2

IsCollection(group) == group.ty \in {"set", "list", "tuple"}

IsPair(pair) == pair.ty \in {"tuple", "list"} /\ Len(pair.items) = 2

\* both members are integers; True and False are Python integers
IntMembers(pair) ==
    \A k \in DOMAIN pair.items : pair.items[k].ty \in {"int", "bool"}

WellFormedPair(pair) == IsPair(pair) /\ IntMembers(pair)

GroupOk(group) ==
    /\ IsCollection(group)
    /\ \A j \in DOMAIN group.items : WellFormedPair(group.items[j])

\* the failure classes of the specification
FailureClass(r) ==
    IF r.exc = "ok" THEN "ok"
    ELSE IF r.err.cls \in {"stages_type", "stages_len"} THEN "sequence"
    ELSE IF r.err.cls = "group_type" THEN "collection"
    ELSE IF r.err.cls \in {"pair_type", "pair_len"} THEN "pair"
    ELSE "integer"

\* the class of the first check, in the order of classes, a spec fails
ClassOrderFailure(stages) ==
    IF ~TwoSequence(stages) THEN "sequence"
    ELSE IF \E i \in 1..2 : ~IsCollection(stages.items[i]) THEN "collection"
    ELSE IF \E i \in 1..2 : \E j \in DOMAIN stages.items[i].items :
                ~IsPair(stages.items[i].items[j]) THEN "pair"
    ELSE IF \E i \in 1..2 : \E j \in DOMAIN stages.items[i].items :
                ~IntMembers(stages.items[i].items[j]) THEN "integer"
    ELSE "ok"

\* C23 as stated: validate reports the first failing check in the order of
\* the failure classes (2-element sequence, then collections, then
\* 2-element pairs, then integer members), so a spec whose second element
\* is not a collection fails with the non-collection failure naming that
\* element whatever the first element holds.
C23_ClassOrder ==
    call.op = "validate_stages" =>
        /\ FailureClass(result) = ClassOrderFailure(call.stages)
        /\ (TwoSequence(call.stages) /\ ~IsCollection(call.stages.items[2])
            /\ IsCollection(call.stages.items[1]))
              => result.err.cls = "group_type" /\ result.err.i = 1

\* the check an entry fails first
FirstDefect(pair) ==
    IF pair.ty \notin {"tuple", "list"} THEN "pair_type"
    ELSE IF Len(pair.items) # 2 THEN "pair_len"
    ELSE "pair_int"

\* C23 amended: validate reports the first failing check in iteration
\* order.  A spec that is not a 2-element sequence fails as such.
\* Otherwise the failure names the first element that is not a collection
\* of well-formed pairs: the non-collection failure if it is no collection,
\* else its first malformed entry with that entry's first defect (not a
\* pair, then not of length 2, then a non-integer member).  So a
\* non-collection second element is reported only when the first element
\* is a collection of well-formed pairs.
C23_IterationOrder ==
    call.op = "validate_stages" =>
        IF ~TwoSequence(call.stages)
        THEN FailureClass(result) = "sequence"
        ELSE \A i \in 1..2 :
               (/\ \A h \in 1..(i - 1) : GroupOk(call.stages.items[h])
                /\ ~GroupOk(call.stages.items[i]))
                 => LET group == call.stages.items[i]
                    IN  /\ result.err.i = i - 1
                        /\ IF ~IsCollection(group)
                           THEN result.err.cls = "group_type"
                           ELSE \E j \in DOMAIN group.items :
                                  /\ \A h \in 1..(j - 1) :
                                        WellFormedPair(group.items[h])
                                  /\ ~WellFormedPair(group.items[j])
                                  /\ result.err.j = j - 1
                                  /\ result.err.cls =
                                        FirstDefect(group.items[j])

\* a malformed entry of the first element is reported although the second
\* element is not a collection
C23_Witness ==
    /\ call.op = "validate_stages"
    /\ call.stages = Spec2(PyList(<<WS(1, 1),
                                    PyTuple(<<PyFloat(1), PyFloat(1)>>)>>),
                           PyInt(5))
    /\ result.exc = "TypeError"
    /\ result.err = Err("TypeError", "pair_int", 0, 1)

\* C24: validate succeeds exactly for the specs that are a 2-element
\* sequence of collections whose entries are all 2-element pairs of
\* integers, the spec of two empty collections included; it rejects a
\* 3-element spec, a spec whose first element is not a collection and a
\* spec containing a pair of floats, each with a different failure.
C24_ValidateAccepts ==
    call.op = "validate_stages" =>
        /\ result.exc = "ok" <=>
              (/\ TwoSequence(call.stages)
               /\ \A i \in 1..2 : GroupOk(call.stages.items[i]))
        /\ call.stages = EmptySpec => result.exc = "ok"
        /\ (call.stages.ty = "tuple" /\ Len(call.stages.items) = 3)
              => FailureClass(result) = "sequence"
        /\ (TwoSequence(call.stages) /\ ~IsCollection(call.stages.items[1]))
              => FailureClass(result) = "collection" /\ result.err.i = 0
        /\ ClassOrderFailure(call.stages) = "integer"
              => FailureClass(result) = "integer"

C24_Witness ==
    /\ call.op = "validate_stages"
    /\ call.stages = Spec2(PyList(<<WS(2, 3), WSList(1, 2)>>),
                           PyTuple(<<WS(1, 1), WS(1, 1)>>))
    /\ result.exc = "ok"

----------------------------------------------------------------------------
(* The stage pool flattener.                                               *)

\* C25: flatten(spec, mode) is the base-tagged keys of the first collection
\* (only if the mode permits base) followed by the alternate-tagged keys of
\* the second collection (only if the mode permits alternate), each half in
\* input order and without deduplication; with mode Both its length is the
\* sum of the two input lengths, with mode BaseOnly it holds only
\* base-tagged keys.
C25_FlattenOrder ==
    call.op = "flatten_stages" =>
        LET base == call.stages.items[1].items
            alt == call.stages.items[2].items
            nb == IF Permitted(call.random_mode, FALSE) THEN Len(base) ELSE 0
            na == IF Permitted(call.random_mode, TRUE) THEN Len(alt) ELSE 0
        IN  /\ Len(result.ret) = nb + na
            /\ \A k \in 1..nb :
                  result.ret[k] = <<FALSE, base[k].ty, base[k].items[1].val,
                                    base[k].items[2].val>>
            /\ \A k \in 1..na :
                  result.ret[nb + k] = <<TRUE, alt[k].ty, alt[k].items[1].val,
                                         alt[k].items[2].val>>
            /\ call.random_mode = BOTH
                  => Len(result.ret) = Len(base) + Len(alt)
            /\ call.random_mode = SMB_ONLY
                  => \A k \in DOMAIN result.ret : result.ret[k][1] = FALSE

\* a duplicated base entry is kept twice, ahead of the alternate entries
C25_Witness ==
    /\ call.op = "flatten_stages"
    /\ call.random_mode = BOTH
    /\ call.stages = Spec2(PyList(<<WS(2, 3), WS(2, 3)>>),
                           PyList(<<WS(1, 1), WS(2, 3)>>))
    /\ result.ret = << <<FALSE, "tuple", 2, 3>>, <<FALSE, "tuple", 2, 3>>,
                       <<TRUE, "tuple", 1, 1>>, <<TRUE, "tuple", 2, 3>> >>

----------------------------------------------------------------------------
(* Construction: emptiness, gating and order of the selectable key list.   *)

\* C26: after any successful construction SelectableKeyList is non-empty,
\* for every mode and every valid stage spec, so construction never fails
\* with the index error of an empty list and a reset without override
\* never draws from an empty list.
C26_ListNonEmpty ==
    /\ constructed = "ok" => Len(stage_pool_keys) > 0
    /\ call.op = "__init__" => result.exc # "IndexError"
    /\ (constructed = "ok" /\ call.op = "reset"
        /\ ~HasOverride(call.options))
          => result.exc # "ValueError"

\* only the base collection is supplied and only the alternate variant is
\* permitted: the list is the 16 alternate defaults
C26_Witness ==
    /\ JustConstructed
    /\ random_mode = LOST_LEVELS_ONLY
    /\ Len(Collection(FALSE).items) > 0
    /\ Len(Collection(TRUE).items) = 0
    /\ Len(stage_pool_keys) = 16

\* C27: in every reachable state EnvironmentPool and SelectableKeyList
\* hold no key of a variant the construction-time mode does not permit,
\* and the key of ActiveInstance, after construction and after every
\* reset with or without override, is of a permitted variant.
C27_VariantGating ==
    constructed # "no" =>
        /\ \A k \in Range(envs) : Permitted(random_mode, k[1])
        /\ \A k \in Range(stage_pool_keys) : Permitted(random_mode, k[1])
        /\ env # None => Permitted(random_mode, env[1])

\* an override naming both variants under a mode that permits one
C27_Witness ==
    /\ Open
    /\ random_mode = LOST_LEVELS_ONLY
    /\ call.op = "reset"
    /\ call.options.stages = Spec2(PyList(<<WS(3, 2)>>), PyList(<<WS(2, 2)>>))
    /\ result.exc = "ok"
    /\ env = <<TRUE, "tuple", 2, 2>>

\* the number of entries a variant contributes to flatten(spec, mode)
Supplied(lost_levels) ==
    IF Permitted(random_mode, lost_levels)
    THEN Len(Collection(lost_levels).items) ELSE 0

\* whether construction appends the defaults of a variant
Defaulted(lost_levels) ==
    /\ Permitted(random_mode, lost_levels)
    /\ Len(Collection(lost_levels).items) = 0

\* C28: after construction SelectableKeyList is, in this order,
\* flatten(spec, mode), then the 32 base default keys if base is permitted
\* and its collection empty, then the 16 alternate default keys if
\* alternate is permitted and its collection empty.  With mode Both, an
\* empty base collection and a non-empty alternate collection the supplied
\* alternate keys precede the base defaults and the initial ActiveInstance
\* is an alternate-variant instance.
C28_ListOrder ==
    JustConstructed =>
        LET nf == Supplied(FALSE) + Supplied(TRUE)
            nb == IF Defaulted(FALSE) THEN 32 ELSE 0
            na == IF Defaulted(TRUE) THEN 16 ELSE 0
        IN  /\ Len(stage_pool_keys) = nf + nb + na
            /\ \A k \in 1..Supplied(FALSE) :
                  stage_pool_keys[k] =
                      StageKey(FALSE, Collection(FALSE).items[k])
            /\ \A k \in 1..Supplied(TRUE) :
                  stage_pool_keys[Supplied(FALSE) + k] =
                      StageKey(TRUE, Collection(TRUE).items[k])
            /\ Defaulted(FALSE) =>
                  {stage_pool_keys[k] : k \in (nf + 1)..(nf + nb)}
                      = DefaultKeys(FALSE)
            /\ Defaulted(TRUE) =>
                  {stage_pool_keys[k] : k \in (nf + nb + 1)..(nf + nb + na)}
                      = DefaultKeys(TRUE)
            /\ (random_mode = BOTH /\ Defaulted(FALSE) /\ ~Defaulted(TRUE))
                  => /\ \A k \in 1..nf : stage_pool_keys[k][1] = TRUE
                     /\ \A k \in (nf + 1)..(nf + nb) :
                           stage_pool_keys[k][1] = FALSE
                     /\ env[1] = TRUE

C28_Witness ==
    /\ JustConstructed
    /\ random_mode = BOTH
    /\ Collection(FALSE) = PyList(<<>>)
    /\ Collection(TRUE) = PyList(<<WS(2, 1), WS(1, 3)>>)
    /\ Len(stage_pool_keys) = 34
    /\ env = <<TRUE, "tuple", 2, 1>>
    /\ stage_pool_keys[3] = <<FALSE, "tuple", 1, 1>>

\* the resolver applied to a pooled key
ResolveKey(k) == decode_target(WS(k[3], k[4]), PyBool(k[1]))
ResolveKeyError(k) == decode_target_error(WS(k[3], k[4]), PyBool(k[1]))

\* C29: every key held in EnvironmentPool is one the resolver accepts:
\* resolve(world, stage, variant) returns an area and does not fail; the
\* pooled alternate worlds lie below the unsupported worlds 5..12.
C29_PoolKeysResolve ==
    \A k \in Range(envs) :
        /\ ResolveKeyError(k) = NoErr
        /\ ResolveKey(k)[3] \in {k[4], k[4] + 1}
        /\ k[1] => k[3] < 5

C29_Witness ==
    /\ constructed = "ok"
    /\ random_mode = BOTH
    /\ <<TRUE, "tuple", 4, 4>> \in Range(envs)
    /\ ResolveKey(<<TRUE, "tuple", 4, 4>>) = <<4, 4, 4>>
    /\ ResolveKey(<<FALSE, "tuple", 7, 4>>) = <<7, 4, 5>>

----------------------------------------------------------------------------
(* reset: the seed is applied first.                                       *)

\* C30: reset applies its seed before it validates anything: a
\* reset(seed=s, options=o) with s given that fails (on a malformed or
\* empty override, or with KeyNotFound) has still replaced the generator
\* by one seeded with s, at its start when no key was drawn and one draw
\* further when the drawn key was not found, while ActiveInstance,
\* EnvironmentPool and SelectableKeyList stay unchanged.
C30_SeedBeforeValidation ==
    [][(/\ constructed = "ok"
        /\ call'.op = "reset"
        /\ call'.seed # NoSeed
        /\ result'.exc # "ok")
         => (/\ np_random'.seeded
             /\ np_random'.seed = call'.seed
             /\ np_random'.pos = (IF ReachesDraw(call') THEN 1 ELSE 0)
             /\ env' = env
             /\ envs' = envs
             /\ stage_pool_keys' = stage_pool_keys)]_vars

\* a seeded reset with a malformed override, after an earlier reset had
\* moved the multiplexer off its first key
C30_Witness ==
    /\ Open
    /\ call.op = "reset"
    /\ call.seed = 0
    /\ HasOverride(call.options)
    /\ result.exc = "TypeError"
    /\ result.err.cls = "pair_int"
    /\ np_random = [seeded |-> TRUE, seed |-> 0, pos |-> 0]
    /\ env # stage_pool_keys[1]

----------------------------------------------------------------------------
(* The generator position.                                                 *)

\* the generator a reset call draws from: the one seeded by the call when
\* it passes a seed, the current one otherwise
DrawnFrom(c) ==
    IF c.seed = NoSeed THEN np_random
    ELSE [seeded |-> TRUE, seed |-> c.seed, pos |-> 0]

\* the key at the position of a seeded generator in a list
StreamKey(rng, keys) == keys[(Stream(rng.seed, rng.pos) % Len(keys)) + 1]

\* C31: the generator advances by exactly one draw per reset that reaches
\* the draw (successful or failing the lookup) and by none in seed, step,
\* close, the getters or a reset that fails before the draw; the no-seed
\* sentinel does not re-seed.  So after seed(s) a reset without seed that
\* finds k - 1 draws made since the seed uses the k-th draw of the stream
\* of s, and a reset that passes s draws the first element of that stream
\* whatever came before.
C31_OneDrawPerReset ==
    [][constructed = "ok" =>
         /\ call'.op = "reset" =>
               LET rng == DrawnFrom(call')
               IN  /\ np_random'.seeded = rng.seeded
                   /\ np_random'.seed = rng.seed
                   /\ np_random'.pos =
                         (IF rng.seeded /\ ReachesDraw(call')
                          THEN rng.pos + 1 ELSE rng.pos)
                   /\ (rng.seeded /\ ~HasOverride(call'.options)
                       /\ result'.exc = "ok")
                         => env' = StreamKey(rng, stage_pool_keys)
         /\ call'.op = "seed" =>
               np_random' = DrawnFrom(call')
         /\ call'.op \in {"step", "close", "get_keys_to_action",
                          "get_action_meanings"}
               => np_random' = np_random]_vars

\* the second reset without seed after seed(0) made the key of the second
\* draw active
C31_Witness ==
    /\ Open
    /\ call.op = "reset"
    /\ call.seed = NoSeed
    /\ call.options = NoOptions
    /\ np_random = [seeded |-> TRUE, seed |-> 0, pos |-> 2]
    /\ Len(stage_pool_keys) = 48
    /\ env = stage_pool_keys[(Stream(0, 1) % 48) + 1]
    /\ env # stage_pool_keys[(Stream(0, 0) % 48) + 1]

----------------------------------------------------------------------------
(* Failed construction.                                                    *)

\* the construction failed in validate_stages
StagesRejected ==
    /\ constructed = "failed"
    /\ result.err # NoErr
    /\ result.err.cls # "rom_mode"

\* C32: a construction that fails in the rendering-configuration check or
\* because validate rejects the stage spec has instantiated no
\* single-stage environment: nothing is pooled, nothing is active and
\* nothing was forwarded.
C32_FailedConstructionPoolsNothing ==
    (RomModeRejected \/ StagesRejected)
        => /\ envs = <<>>
           /\ env = None
           /\ fwd = <<>>

C32_Witness ==
    /\ StagesRejected
    /\ call.random_mode = BOTH
    /\ call.rom_mode = "vanilla"
    /\ result.err = Err("TypeError", "pair_int", 0, 0)
    /\ envs = <<>>

====
